---- MODULE Spec2Model ----
(***************************************************************************)
(* Model of DifferenceStatistics.py: DifferenceStatisticsLogic.run and the *)
(* widget's onApplyButton that calls it.                                   *)
(*                                                                         *)
(* A path is a sequence of tokens in which "/" and "." are the separator   *)
(* tokens, e.g. <<"a", "/", "x", ".", "vtk">> for a/x.vtk.  os.path.split, *)
(* os.path.splitext and the f-string / Path joins are computed on these    *)
(* sequences the way the Python functions compute them on characters.      *)
(*                                                                         *)
(* The host calls (loadModel, runSync, arrayFromModelPointData, saveNode,  *)
(* read_csv) are external: each is a nondeterministic choice between its   *)
(* success and its failure.  A failure of a host call is an exception;     *)
(* loadModel may also return no model, which run tests at line 152.        *)
(***************************************************************************)
EXTENDS Integers, Sequences, FiniteSets, TLC

VARIABLES
  pc,            \* position inside onApplyButton / run
  inputExists,   \* file system: inputCSV.exists()
  outKind,       \* file system: "missing", "dir" or "file" at the output path
  outFiles,      \* file system: difference-mesh files present under output
  manifest,      \* file system: output/mfsdaInputFiles.csv
  mfsda,         \* slicer.modules.MFSDAWidget path fields + module selection
  scene,         \* slicer.mrmlScene: nodes added, in order
  df,            \* run: the table read from inputCSV
  tp1_subjects,  \* run: column "Timepoint 1"
  tp2_subjects,  \* run: column "Timepoint 2"
  covs,          \* run: remaining columns
  names,         \* run: accumulated output paths
  index,         \* run: loop index (0-based)
  tp1_name,      \* run: stem of the current Timepoint 1 path
  tp2_name,      \* run: stem of the current Timepoint 2 path
  model1,        \* run: result of loadModel(tp1): "unset", "model", "none"
  model2,        \* run: result of loadModel(tp2)
  exc,           \* the exception in flight or last handled, "none" if none
  result,        \* how run ended: "none", "completed", "rowfail", "raised"
  errorShown,    \* onApplyButton: slicer.util.errorDisplay was called
  log,           \* the calls made so far, in order
  written,       \* difference-mesh files saved by this run
  manifest0,     \* manifest as it was when run was called
  mfsda0         \* MFSDA widget as it was when run was called

vars == <<pc, inputExists, outKind, outFiles, manifest, mfsda, scene, df,
          tp1_subjects, tp2_subjects, covs, names, index, tp1_name, tp2_name,
          model1, model2, exc, result, errorShown, log, written, manifest0,
          mfsda0>>

fsVars    == <<inputExists, outKind>>
histVars  == <<manifest0, mfsda0>>
tableVars == <<df, tp1_subjects, tp2_subjects, covs>>
rowVars   == <<tp1_name, tp2_name, model1, model2>>

----------------------------------------------------------------------------
(* Bounds and input sets *)

MaxRows == 2

TP1 == "Timepoint 1"
TP2 == "Timepoint 2"
VTKFile == "VTK File"

InputCSV == <<"in", ".", "csv">>
Template == <<"template", ".", "vtk">>
Output   == <<"out">>
ManifestName == <<"mfsdaInputFiles", ".", "csv">>

\* Timepoint 1 paths: the same file name in two directories, with two
\* extensions
TP1Paths == { <<"a", "/", "x", ".", "vtk">>, <<"b", "/", "x", ".", "stl">> }
\* Timepoint 2 paths: a name with two dots (only the last is the extension)
\* and a hidden file (a leading dot is not an extension)
TP2Paths == { <<"a", "/", "y", ".", "v2", ".", "vtk">>, <<"c", "/", ".", "y">> }
CovVals  == {1, 2}

Headers == { <<TP1, TP2, "age">>,
             <<"age", TP2, "sex", TP1>>,
             <<TP1, "age">>,
             <<VTKFile, TP1, TP2>> }

RowSpecs == [tp1 : TP1Paths, tp2 : TP2Paths, cov : CovVals]

RowCells(h, r) ==
  [k \in 1..Len(h) |-> IF h[k] = TP1 THEN r.tp1
                       ELSE IF h[k] = TP2 THEN r.tp2
                       ELSE <<10 * k + r.cov>>]

Tables ==
  { [cols |-> h, rows |-> [i \in 1..n |-> RowCells(h, rs[i])]] :
      h \in Headers, n \in 0..MaxRows, rs \in [1..MaxRows -> RowSpecs] }

NoTable     == [cols |-> <<>>, rows |-> <<>>]
NoFile      == [exists |-> FALSE, cols |-> <<>>, rows |-> <<>>]
OldManifest == [exists |-> TRUE, cols |-> <<VTKFile, "old">>, rows |-> <<>>]
OldMFSDA    == [pshape |-> <<"old">>, output |-> <<"old">>, csv |-> <<"old">>,
                selected |-> FALSE]

----------------------------------------------------------------------------
(* Pure helpers *)

RECURSIVE LastIndexOf(_, _, _)
\* str.rfind on the first n tokens: the last position of tok, 0 if absent
LastIndexOf(p, tok, n) ==
  IF n = 0 THEN 0
  ELSE IF p[n] = tok THEN n
  ELSE LastIndexOf(p, tok, n - 1)

\* os.path.split(p)[1]: everything after the last "/"
SplitTail(p) == SubSeq(p, LastIndexOf(p, "/", Len(p)) + 1, Len(p))

\* os.path.splitext(name)[0] for a name without "/": cut at the last ".",
\* unless only dots precede it (leading dots are not an extension)
SplitextRoot(name) ==
  LET d == LastIndexOf(name, ".", Len(name))
  IN IF d > 0 /\ \E k \in 1..(d - 1) : name[k] # "."
     THEN SubSeq(name, 1, d - 1)
     ELSE name

Stem(p) == SplitextRoot(SplitTail(p))

\* out_name = tp2_name + '-' + tp1_name
OutName(n2, n1) == n2 \o <<"-">> \o n1

\* output / f"{out_name}.vtk"
OutputModelFullpath(out_name) == Output \o <<"/">> \o out_name \o <<".", "vtk">>

\* output / "mfsdaInputFiles.csv"
OutCsvFullpath == Output \o <<"/">> \o ManifestName

\* df[name]: the positions of the column called name
ColIndex(cols, name) == { k \in 1..Len(cols) : cols[k] = name }

HasCol(cols, name) == ColIndex(cols, name) # {}

Column(t, name) ==
  LET k == CHOOSE k \in ColIndex(t.cols, name) : TRUE
  IN [i \in 1..Len(t.rows) |-> t.rows[i][k]]

RECURSIVE KeepIdx(_, _, _)
\* positions 1..n of cols that are not in the list of dropped names, in order
KeepIdx(cols, dropped, n) ==
  IF n = 0 THEN <<>>
  ELSE IF cols[n] \in dropped THEN KeepIdx(cols, dropped, n - 1)
  ELSE Append(KeepIdx(cols, dropped, n - 1), n)

\* df.drop(dropped, axis=1)
Drop(t, dropped) ==
  LET keep == KeepIdx(t.cols, dropped, Len(t.cols))
  IN [cols |-> [j \in 1..Len(keep) |-> t.cols[keep[j]]],
      rows |-> [i \in 1..Len(t.rows) |->
                  [j \in 1..Len(keep) |-> t.rows[i][keep[j]]]]]

\* Variant of InsertFirst: the new column is appended after the covariates
InsertFirst_AppendLast(t, name, values) ==
  [cols |-> t.cols \o <<name>>,
   rows |-> [i \in 1..Len(t.rows) |-> t.rows[i] \o <<values[i]>>]]

\* covs.insert(0, name, values): the new column goes first, row by position
InsertFirst(t, name, values) ==
  [cols |-> <<name>> \o t.cols,
   rows |-> [i \in 1..Len(t.rows) |-> <<values[i]>> \o t.rows[i]]]

Ev(name) == <<name, index>>

----------------------------------------------------------------------------
Init ==
  /\ pc = "idle"
  /\ inputExists \in BOOLEAN
  /\ outKind \in {"missing", "dir", "file"}
  /\ outFiles = {}
  /\ manifest \in (IF outKind = "dir" THEN {NoFile, OldManifest} ELSE {NoFile})
  /\ mfsda = OldMFSDA
  /\ scene = <<>>
  /\ df = NoTable
  /\ tp1_subjects = <<>>
  /\ tp2_subjects = <<>>
  /\ covs = NoTable
  /\ names = <<>>
  /\ index = 0
  /\ tp1_name = <<>>
  /\ tp2_name = <<>>
  /\ model1 = "unset"
  /\ model2 = "unset"
  /\ exc = "none"
  /\ result = "none"
  /\ errorShown = FALSE
  /\ log = <<>>
  /\ written = {}
  /\ manifest0 = manifest
  /\ mfsda0 = mfsda

\* onApplyButton, line 82: call run
onApplyButton ==
  /\ pc = "idle"
  /\ pc' = "validateInput"
  /\ manifest0' = manifest
  /\ mfsda0' = mfsda
  /\ UNCHANGED <<fsVars, outFiles, manifest, mfsda, scene, tableVars, names,
                 index, rowVars, exc, result, errorShown, log, written>>

\* run, lines 115-116
ValidateInput ==
  /\ pc = "validateInput"
  /\ log' = Append(log, Ev("validateInput"))
  /\ IF ~inputExists
       THEN /\ exc' = "ValueError:input"
            /\ result' = "raised"
            /\ pc' = "raised"
       ELSE /\ pc' = "validateOutput"
            /\ UNCHANGED <<exc, result>>
  /\ UNCHANGED <<fsVars, outFiles, manifest, mfsda, scene, tableVars, names,
                 index, rowVars, errorShown, written, histVars>>

\* Variant of ValidateOutput: the test rejects an existing directory instead
\* of an existing non-directory
ValidateOutput_WrongTest ==
  /\ pc = "validateOutput"
  /\ log' = Append(log, Ev("validateOutput"))
  /\ IF outKind = "dir"
       THEN /\ exc' = "ValueError:output"
            /\ result' = "raised"
            /\ pc' = "raised"
       ELSE /\ pc' = "read"
            /\ UNCHANGED <<exc, result>>
  /\ UNCHANGED <<fsVars, outFiles, manifest, mfsda, scene, tableVars, names,
                 index, rowVars, errorShown, written, histVars>>

\* run, lines 118-119
ValidateOutput ==
  /\ pc = "validateOutput"
  /\ log' = Append(log, Ev("validateOutput"))
  /\ IF outKind # "missing" /\ outKind # "dir"
       THEN /\ exc' = "ValueError:output"
            /\ result' = "raised"
            /\ pc' = "raised"
       ELSE /\ pc' = "read"
            /\ UNCHANGED <<exc, result>>
  /\ UNCHANGED <<fsVars, outFiles, manifest, mfsda, scene, tableVars, names,
                 index, rowVars, errorShown, written, histVars>>

\* run, line 126: pd.read_csv(inputCSV); the file's content is any table,
\* or the parse fails
ReadCSV ==
  /\ pc = "read"
  /\ log' = Append(log, Ev("read"))
  /\ \/ \E t \in Tables :
          /\ df' = t
          /\ pc' = "select"
          /\ UNCHANGED <<exc, result>>
     \/ /\ exc' = "read_csv"
        /\ result' = "raised"
        /\ pc' = "raised"
        /\ UNCHANGED df
  /\ UNCHANGED <<fsVars, outFiles, manifest, mfsda, scene, tp1_subjects,
                 tp2_subjects, covs, names, index, rowVars, errorShown,
                 written, histVars>>

\* run, lines 129-135: a missing Timepoint column is a KeyError
SelectColumns ==
  /\ pc = "select"
  /\ IF HasCol(df.cols, TP1) /\ HasCol(df.cols, TP2)
       THEN /\ tp1_subjects' = Column(df, TP1)
            /\ tp2_subjects' = Column(df, TP2)
            /\ covs' = Drop(df, {TP1, TP2})
            /\ names' = <<>>
            /\ pc' = "loop"
            /\ UNCHANGED <<exc, result>>
       ELSE /\ exc' = "KeyError"
            /\ result' = "raised"
            /\ pc' = "raised"
            /\ UNCHANGED <<tp1_subjects, tp2_subjects, covs, names>>
  /\ UNCHANGED <<fsVars, outFiles, manifest, mfsda, scene, df, index, rowVars,
                 errorShown, log, written, histVars>>

\* Variant of LoopNext: after the last row the manifest step is skipped
LoopNext_SkipManifest ==
  /\ pc = "loop"
  /\ IF index < Len(tp1_subjects)
       THEN pc' = "load1"
       ELSE pc' = "selectModule"
  /\ model1' = "unset"
  /\ model2' = "unset"
  /\ UNCHANGED <<fsVars, outFiles, manifest, mfsda, scene, tableVars, names,
                 index, tp1_name, tp2_name, exc, result, errorShown, log,
                 written, histVars>>

\* run, line 139: the next (tp1, tp2) of the zip, or the end of the loop
LoopNext ==
  /\ pc = "loop"
  /\ IF index < Len(tp1_subjects)
       THEN pc' = "load1"
       ELSE pc' = "manifest"
  /\ model1' = "unset"
  /\ model2' = "unset"
  /\ UNCHANGED <<fsVars, outFiles, manifest, mfsda, scene, tableVars, names,
                 index, tp1_name, tp2_name, exc, result, errorShown, log,
                 written, histVars>>

\* run, lines 142-144
LoadModel1 ==
  /\ pc = "load1"
  /\ tp1_name' = Stem(tp1_subjects[index + 1])
  /\ log' = Append(log, Ev("load1"))
  /\ \/ /\ model1' = "model"
        /\ scene' = Append(scene, <<"model", tp1_subjects[index + 1]>>)
        /\ pc' = "load2"
        /\ UNCHANGED exc
     \/ /\ model1' = "none"
        /\ pc' = "load2"
        /\ UNCHANGED <<scene, exc>>
     \/ /\ exc' = "load"
        /\ pc' = "except"
        /\ UNCHANGED <<scene, model1>>
  /\ UNCHANGED <<fsVars, outFiles, manifest, mfsda, tableVars, names, index,
                 tp2_name, model2, result, errorShown, written, histVars>>

\* run, lines 146-150
LoadModel2 ==
  /\ pc = "load2"
  /\ tp2_name' = Stem(tp2_subjects[index + 1])
  /\ log' = Append(log, Ev("load2"))
  /\ \/ /\ model2' = "model"
        /\ scene' = Append(scene, <<"model", tp2_subjects[index + 1]>>)
        /\ pc' = "check"
        /\ UNCHANGED exc
     \/ /\ model2' = "none"
        /\ pc' = "check"
        /\ UNCHANGED <<scene, exc>>
     \/ /\ exc' = "load"
        /\ pc' = "except"
        /\ UNCHANGED <<scene, model2>>
  /\ UNCHANGED <<fsVars, outFiles, manifest, mfsda, tableVars, names, index,
                 tp1_name, model1, result, errorShown, written, histVars>>

\* Variant of CheckModels: the row is skipped only when both loads failed
CheckModels_BothMissing ==
  /\ pc = "check"
  /\ log' = Append(log, Ev("check"))
  /\ IF model1 # "model" /\ model2 # "model"
       THEN /\ exc' = "skipped"
            /\ pc' = "except"
       ELSE /\ pc' = "addnode"
            /\ UNCHANGED exc
  /\ UNCHANGED <<fsVars, outFiles, manifest, mfsda, scene, tableVars, names,
                 index, rowVars, result, errorShown, written, histVars>>

\* run, lines 152-153
CheckModels ==
  /\ pc = "check"
  /\ log' = Append(log, Ev("check"))
  /\ IF model1 # "model" \/ model2 # "model"
       THEN /\ exc' = "skipped"
            /\ pc' = "except"
       ELSE /\ pc' = "addnode"
            /\ UNCHANGED exc
  /\ UNCHANGED <<fsVars, outFiles, manifest, mfsda, scene, tableVars, names,
                 index, rowVars, result, errorShown, written, histVars>>

\* run, line 156
AddOutputNode ==
  /\ pc = "addnode"
  /\ scene' = Append(scene, <<"output", OutName(tp2_name, tp1_name)>>)
  /\ log' = Append(log, Ev("addnode"))
  /\ pc' = "distance"
  /\ UNCHANGED <<fsVars, outFiles, manifest, mfsda, tableVars, names, index,
                 rowVars, exc, result, errorShown, written, histVars>>

\* run, lines 158-165: slicer.cli.runSync(modeltomodeldistance)
RunDistance ==
  /\ pc = "distance"
  /\ log' = Append(log, Ev("distance"))
  /\ \/ /\ pc' = "replace"
        /\ UNCHANGED exc
     \/ /\ exc' = "distance"
        /\ pc' = "except"
  /\ UNCHANGED <<fsVars, outFiles, manifest, mfsda, scene, tableVars, names,
                 index, rowVars, result, errorShown, written, histVars>>

\* run, lines 168-169: read MagNormVector and set it as the points
ReplacePoints ==
  /\ pc = "replace"
  /\ \/ /\ pc' = "save"
        /\ UNCHANGED exc
     \/ /\ exc' = "replace"
        /\ pc' = "except"
  /\ UNCHANGED <<fsVars, outFiles, manifest, mfsda, scene, tableVars, names,
                 index, rowVars, result, errorShown, log, written, histVars>>

\* Variant of SaveNode: a path already in names is not appended again
SaveNode_SkipDuplicate ==
  /\ pc = "save"
  /\ log' = Append(log, Ev("save"))
  /\ LET path == OutputModelFullpath(OutName(tp2_name, tp1_name))
     IN \/ /\ outKind = "dir"
           /\ outFiles' = outFiles \cup {path}
           /\ written' = written \cup {path}
           /\ names' = IF \E i \in 1..Len(names) : names[i] = path
                          THEN names
                          ELSE Append(names, path)
           /\ index' = index + 1
           /\ pc' = "loop"
           /\ UNCHANGED exc
        \/ /\ exc' = "save"
           /\ pc' = "except"
           /\ UNCHANGED <<outFiles, written, names, index>>
  /\ UNCHANGED <<fsVars, manifest, mfsda, scene, tableVars, rowVars, result,
                 errorShown, histVars>>

\* run, lines 171-173 and the loop's increment: saveNode writes the file only
\* into an existing directory; after it returns the path is appended
SaveNode ==
  /\ pc = "save"
  /\ log' = Append(log, Ev("save"))
  /\ LET path == OutputModelFullpath(OutName(tp2_name, tp1_name))
     IN \/ /\ outKind = "dir"
           /\ outFiles' = outFiles \cup {path}
           /\ written' = written \cup {path}
           /\ names' = Append(names, path)
           /\ index' = index + 1
           /\ pc' = "loop"
           /\ UNCHANGED exc
        \/ /\ exc' = "save"
           /\ pc' = "except"
           /\ UNCHANGED <<outFiles, written, names, index>>
  /\ UNCHANGED <<fsVars, manifest, mfsda, scene, tableVars, rowVars, result,
                 errorShown, histVars>>

\* Variant of ExceptHandler: the handler goes on with the next row
ExceptHandler_Continue ==
  /\ pc = "except"
  /\ index' = index + 1
  /\ pc' = "loop"
  /\ UNCHANGED <<fsVars, outFiles, manifest, mfsda, scene, tableVars, names,
                 rowVars, exc, result, errorShown, log, written, histVars>>

\* Variant of ExceptHandler: the handler re-raises
ExceptHandler_Reraise ==
  /\ pc = "except"
  /\ result' = "raised"
  /\ pc' = "raised"
  /\ UNCHANGED <<fsVars, outFiles, manifest, mfsda, scene, tableVars, names,
                 index, rowVars, exc, errorShown, log, written, histVars>>

\* run, lines 174-176: print and return
ExceptHandler ==
  /\ pc = "except"
  /\ result' = "rowfail"
  /\ pc' = "returned"
  /\ UNCHANGED <<fsVars, outFiles, manifest, mfsda, scene, tableVars, names,
                 index, rowVars, exc, errorShown, log, written, histVars>>

\* run, lines 178-180: insert raises ValueError when the column exists or the
\* lengths differ; to_csv raises OSError when the directory does not exist
WriteManifest ==
  /\ pc = "manifest"
  /\ IF HasCol(covs.cols, VTKFile) \/ Len(names) # Len(covs.rows)
       THEN /\ exc' = "insert"
            /\ result' = "raised"
            /\ pc' = "raised"
            /\ UNCHANGED <<covs, manifest, log>>
       ELSE /\ covs' = InsertFirst(covs, VTKFile, names)
            /\ IF outKind = "dir"
                 THEN /\ manifest' = [exists |-> TRUE, cols |-> covs'.cols,
                                      rows |-> covs'.rows]
                      /\ log' = Append(log, Ev("manifest"))
                      /\ pc' = "selectModule"
                      /\ UNCHANGED <<exc, result>>
                 ELSE /\ exc' = "to_csv"
                      /\ result' = "raised"
                      /\ pc' = "raised"
                      /\ UNCHANGED <<manifest, log>>
  /\ UNCHANGED <<fsVars, outFiles, mfsda, scene, df, tp1_subjects,
                 tp2_subjects, names, index, rowVars, errorShown, written,
                 histVars>>

\* run, lines 186-187
SelectModules ==
  /\ pc = "selectModule"
  /\ mfsda' = [mfsda EXCEPT !.selected = TRUE]
  /\ log' = Append(log, Ev("selectModule"))
  /\ pc' = "setFields"
  /\ UNCHANGED <<fsVars, outFiles, manifest, scene, tableVars, names, index,
                 rowVars, exc, result, errorShown, written, histVars>>

\* Variant of SetMFSDAFields: the CSV field receives the input table's path
SetMFSDAFields_InputCsv ==
  /\ pc = "setFields"
  /\ mfsda' = [mfsda EXCEPT !.pshape = Template,
                            !.output = Output,
                            !.csv = InputCSV]
  /\ log' = Append(log, Ev("configure"))
  /\ result' = "completed"
  /\ pc' = "returned"
  /\ UNCHANGED <<fsVars, outFiles, manifest, scene, tableVars, names, index,
                 rowVars, exc, errorShown, written, histVars>>

\* run, lines 189-193
SetMFSDAFields ==
  /\ pc = "setFields"
  /\ mfsda' = [mfsda EXCEPT !.pshape = Template,
                            !.output = Output,
                            !.csv = OutCsvFullpath]
  /\ log' = Append(log, Ev("configure"))
  /\ result' = "completed"
  /\ pc' = "returned"
  /\ UNCHANGED <<fsVars, outFiles, manifest, scene, tableVars, names, index,
                 rowVars, exc, errorShown, written, histVars>>

\* onApplyButton, line 82 onwards: run returned, no exception
RunReturned ==
  /\ pc = "returned"
  /\ pc' = "done"
  /\ UNCHANGED <<fsVars, outFiles, manifest, mfsda, scene, tableVars, names,
                 index, rowVars, exc, result, errorShown, log, written,
                 histVars>>

\* onApplyButton, lines 87-90: run raised
ShowError ==
  /\ pc = "raised"
  /\ errorShown' = TRUE
  /\ pc' = "done"
  /\ UNCHANGED <<fsVars, outFiles, manifest, mfsda, scene, tableVars, names,
                 index, rowVars, exc, result, log, written, histVars>>

Next ==
  \/ onApplyButton
  \/ ValidateInput
  \/ ValidateOutput
  \/ ReadCSV
  \/ SelectColumns
  \/ LoopNext
  \/ LoadModel1
  \/ LoadModel2
  \/ CheckModels
  \/ AddOutputNode
  \/ RunDistance
  \/ ReplacePoints
  \/ SaveNode
  \/ ExceptHandler
  \/ WriteManifest
  \/ SelectModules
  \/ SetMFSDAFields
  \/ RunReturned
  \/ ShowError

Spec == Init /\ [][Next]_vars

----------------------------------------------------------------------------
(* Vocabulary of the properties *)

\* exceptions raised inside the try of lines 140-173
RowExcs == {"load", "skipped", "distance", "replace", "save"}

\* exceptions of lines 115-119 (validation) and 126-133 (reading the table)
ValidationExcs == {"ValueError:input", "ValueError:output"}
TableExcs      == {"read_csv", "KeyError"}
\* exceptions of lines 178-180 (writing the manifest)
ManifestExcs   == {"insert", "to_csv"}

Logged(name) == \E k \in 1..Len(log) : log[k][1] = name

LoggedRow(name, i) == \E k \in 1..Len(log) : log[k] = <<name, i>>

\* the positions of the input columns that are covariates
CovPositions == { k \in 1..Len(df.cols) : df.cols[k] \notin {TP1, TP2} }

\* the cell of input row i (1-based) in the column called name
Cell(i, name) == df.rows[i][CHOOSE k \in 1..Len(df.cols) : df.cols[k] = name]

\* "<output>/<timepoint2-stem>-<timepoint1-stem>.vtk" for input row i
ExpectedPath(i) ==
  <<"out", "/">> \o Stem(Cell(i, TP2)) \o <<"-">> \o Stem(Cell(i, TP1))
                 \o <<".", "vtk">>

\* the calls of one row, in the order of lines 142-173
RowCalls(i) ==
  << <<"load1", i>>, <<"load2", i>>, <<"check", i>>, <<"addnode", i>>,
     <<"distance", i>>, <<"save", i>> >>

RECURSIVE RowsCalls(_)
RowsCalls(n) == IF n = 0 THEN <<>> ELSE RowsCalls(n - 1) \o RowCalls(n - 1)

\* the calls of a run over n rows that nothing interrupts
FixedOrder(n) ==
  << <<"validateInput", 0>>, <<"validateOutput", 0>>, <<"read", 0>> >>
    \o RowsCalls(n)
    \o << <<"manifest", n>>, <<"selectModule", n>>, <<"configure", n>> >>

IsPrefix(s, t) == Len(s) <= Len(t) /\ \A k \in 1..Len(s) : s[k] = t[k]

----------------------------------------------------------------------------
(* C1 *)

\* C1 as stated: whenever the input CSV does not exist or the output path is
\* not a directory, run raises at the validation, before the table is read:
\* no model is loaded, no node is added, no file is written, the statistics
\* module's fields are unchanged.
C1_RaisesWhenOutputNotADirectory ==
  (pc \notin {"idle", "validateInput", "validateOutput"}
     /\ (~inputExists \/ outKind # "dir"))
  => /\ result = "raised"
     /\ exc \in ValidationExcs
     /\ ~Logged("read")
     /\ df = NoTable
     /\ scene = <<>>
     /\ outFiles = {} /\ written = {}
     /\ manifest = manifest0
     /\ mfsda = mfsda0

\* C1 amended: whenever the input CSV does not exist, or the output path
\* exists and is not a directory, run raises at the validation, before the
\* table is read: no model is loaded, no node is added, no file is written,
\* the statistics module's fields are unchanged.  (An output path that does
\* not exist passes the validation.)
C1_RaisesOnInvalidPaths ==
  (pc \notin {"idle", "validateInput", "validateOutput"}
     /\ (~inputExists \/ outKind = "file"))
  => /\ result = "raised"
     /\ exc \in ValidationExcs
     /\ ~Logged("read")
     /\ df = NoTable
     /\ scene = <<>>
     /\ outFiles = {} /\ written = {}
     /\ manifest = manifest0
     /\ mfsda = mfsda0

C1_Witness ==
  /\ pc = "done" /\ inputExists /\ outKind = "file"
  /\ exc = "ValueError:output" /\ errorShown

----------------------------------------------------------------------------
(* C2 *)

\* C2: once a load, the distance computation or the save of row index has
\* failed, the failure is handled inside run and the batch stops there: no
\* call is made for a later row, no row is loaded twice, the manifest is not
\* written and the statistics module is not configured.
C2_RowFailureAbortsBatch ==
  exc \in RowExcs
  => /\ pc \in {"except", "returned", "done"}
     /\ pc # "except" => result = "rowfail"
     /\ \A k \in 1..Len(log) : log[k][2] <= index
     /\ \A i \in 0..index :
          Cardinality({k \in 1..Len(log) : log[k] = <<"load1", i>>}) = 1
     /\ Len(names) = index
     /\ ~Logged("manifest") /\ manifest = manifest0
     /\ ~Logged("selectModule") /\ ~Logged("configure") /\ mfsda = mfsda0

C2_Witness ==
  /\ pc = "done" /\ result = "rowfail" /\ exc = "save"
  /\ index = 0 /\ Len(tp1_subjects) = 2

----------------------------------------------------------------------------
(* C3 *)

\* the rows of the input table name pairwise different Timepoint 1 files
DistinctTimepointFiles ==
  \A i, j \in 1..Len(df.rows) : i # j => Cell(i, TP1) # Cell(j, TP1)

\* C3: every processed row has its own difference-mesh file, named
\* "<timepoint2-stem>-<timepoint1-stem>.vtk": the number of distinct files
\* written equals the number of rows processed, also when different rows
\* name different files whose stems are equal (the same file name in
\* another directory or with another extension).
C3_OneFilePerRow ==
  (names # <<>> /\ DistinctTimepointFiles)
  => /\ \A i \in 1..Len(names) :
          names[i] = ExpectedPath(i) /\ names[i] \in outFiles
     /\ Cardinality(written) = Len(names)

----------------------------------------------------------------------------
(* C4 *)

\* C4: the list of output paths has exactly one entry per row processed so
\* far, and a manifest written by run has as many rows as the list has
\* entries, which is the number of rows of the input table.
C4_ManifestRowCount ==
  /\ Len(names) = index
  /\ index <= Len(df.rows)
  /\ Logged("manifest")
       => /\ manifest.exists
          /\ Len(manifest.rows) = Len(names)
          /\ Len(names) = Len(df.rows)
          /\ \A i \in 0..(Len(df.rows) - 1) : LoggedRow("save", i)

C4_Witness ==
  /\ Logged("manifest") /\ Len(manifest.rows) = 2
  /\ manifest.rows[1][1] = manifest.rows[2][1]

----------------------------------------------------------------------------
(* C5 *)

\* C5: a manifest written by run has "VTK File" as its first column, followed
\* by the input columns other than the two Timepoint columns in their input
\* order, and its row i holds the difference-mesh path of input row i and
\* the covariate values of input row i.
C5_ManifestContent ==
  Logged("manifest")
  => /\ Len(manifest.cols) = 1 + Cardinality(CovPositions)
     /\ manifest.cols[1] = "VTK File"
     /\ Len(manifest.rows) = Len(df.rows)
     /\ \E f \in [1..Cardinality(CovPositions) -> CovPositions] :
          /\ \A a, b \in DOMAIN f : a < b => f[a] < f[b]
          /\ \A j \in DOMAIN f : manifest.cols[j + 1] = df.cols[f[j]]
          /\ \A i \in 1..Len(df.rows) :
               /\ Len(manifest.rows[i]) = Len(manifest.cols)
               /\ manifest.rows[i][1] = ExpectedPath(i)
               /\ \A j \in DOMAIN f : manifest.rows[i][j + 1] = df.rows[i][f[j]]

C5_Witness ==
  /\ Logged("manifest")
  /\ df.cols = <<"age", TP2, "sex", TP1>>
  /\ Len(manifest.rows) = 2
  /\ manifest.rows[1] # manifest.rows[2]

----------------------------------------------------------------------------
(* C6 *)

\* C6: the calls of a run are always a prefix of the fixed order: validate
\* the input path, validate the output path, read the table, then for each
\* row in table order load, load, check, add the output node, distance,
\* save, then write the manifest once, then select and configure the
\* analysis module.  So no row starts before both validations and the save
\* of the previous row, no save precedes its row's distance call, the
\* manifest is not written before the last row's save, and the analysis
\* module is not configured before the manifest is written.
C6_FixedOrder ==
  IsPrefix(log, FixedOrder(Len(df.rows)))

C6_Witness ==
  /\ pc = "done" /\ result = "completed"
  /\ Len(df.rows) = 2 /\ Len(log) = 18

----------------------------------------------------------------------------
(* C7 *)

----------------------------------------------------------------------------
(* C8 *)

\* C8: after run has returned normally, the output directory exists, also
\* when it did not exist before the call, and the files run generated are
\* in it.
C8_OutputDirectoryCreated ==
  (pc = "done" /\ result \in {"completed", "rowfail"})
  => /\ outKind = "dir"
     /\ written \subseteq outFiles

----------------------------------------------------------------------------
(* C9 *)

\* C9: the load result is checked only after both loads of the row were
\* attempted, Timepoint 1 first; the output node, the distance call and the
\* save of a row happen only if both loads returned a model; and when a load
\* returned no model the row adds no output node, calls neither the distance
\* nor the save operation and appends nothing to the list of output paths.
C9_BothLoadsBeforeCheck ==
  /\ \A k \in 1..Len(log) :
       log[k][1] = "check"
       => /\ k >= 3
          /\ log[k - 2] = <<"load1", log[k][2]>>
          /\ log[k - 1] = <<"load2", log[k][2]>>
  /\ \A k \in 1..Len(log) :
       (log[k][1] \in {"addnode", "distance", "save"} /\ log[k][2] = index)
       => model1 = "model" /\ model2 = "model"
  /\ ((model1 = "none" \/ model2 = "none") /\ pc \notin {"load2", "check"})
       => /\ pc \in {"except", "returned", "done"}
          /\ exc \in {"skipped", "load"}
          /\ ~LoggedRow("addnode", index)
          /\ ~LoggedRow("distance", index)
          /\ ~LoggedRow("save", index)
          /\ Cardinality({k \in 1..Len(scene) : scene[k][1] = "output"}) = index
          /\ Len(names) = index

C9_Witness ==
  /\ pc = "done" /\ exc = "skipped"
  /\ model1 = "none" /\ model2 = "model" /\ index = 1

----------------------------------------------------------------------------
(* C10 *)

\* what C10 says of a failed row: run returns, no dialog is shown, the files
\* saved for the earlier rows are still there and the manifest an earlier
\* run left is unchanged
RowFailureIsSilent ==
  exc \in RowExcs
  => /\ result # "raised" /\ pc # "raised"
     /\ ~errorShown
     /\ \A i \in 1..index : names[i] \in outFiles
     /\ written \subseteq outFiles
     /\ manifest = manifest0

\* C10 as stated: a failed row makes run return normally, with no error
\* dialog and nothing undone, and the dialog is shown only for an exception
\* raised by run, which is a validation or a table-reading error.  (Stated
\* for a run whose output directory exists.)
C10_DialogOnlyForValidationOrTable ==
  /\ RowFailureIsSilent
  /\ (errorShown /\ outKind = "dir")
       => result = "raised" /\ exc \in ValidationExcs \cup TableExcs

\* C10 amended: a failed row makes run return normally, with no error dialog
\* and nothing undone, and the dialog is shown only for an exception raised
\* by run, which is a validation, a table-reading or a manifest-writing
\* error.
C10_DialogOnlyWhenRunRaises ==
  /\ RowFailureIsSilent
  /\ errorShown
       => result = "raised" /\ exc \in ValidationExcs \cup TableExcs \cup ManifestExcs

C10_Witness ==
  /\ pc = "done" /\ result = "rowfail" /\ ~errorShown
  /\ index = 1 /\ written # {} /\ manifest = OldManifest

====
